---- MODULE Spec2Model ----
(***************************************************************************)
(* The OpenPGP signature packet deserializer of src/packet/signature/de.rs *)
(* as a state machine.  A byte is a number in 0..255, a slice a sequence   *)
(* of bytes.  Every parser is an operator from a slice to a nom IResult,   *)
(* a record [st, rest, val]:                                               *)
(*   st = "Ok"          Ok((rest, val))                                    *)
(*   st = "Error"       Err(nom::Err::Error(_))      (malformed input)     *)
(*   st = "Incomplete"  Err(nom::Err::Incomplete(_)) (more bytes needed)   *)
(*   st = "Panic"       the thread panicked (overflow-checked arithmetic)  *)
(* An Option is a sequence: <<>> is None, <<x>> is Some(x).                *)
(***************************************************************************)
EXTENDS Integers, Sequences, FiniteSets, TLC

VARIABLES
    input,            \* the slice handed to from_slice
    packet_version,   \* the packet-format version handed to from_slice
    overflow_checks,  \* the build profile: TRUE when arithmetic overflow panics
    gen,              \* how the input was put together (read by the properties only)
    result,           \* the IResult of parse, once from_slice has run
    pc                \* "ready" before from_slice runs, "done" after

vars == <<input, packet_version, overflow_checks, gen, result, pc>>

RECURSIVE parse(_, _)

Byte == 0..255

----------------------------------------------------------------------------
(* IResult *)

Ok(r, v) == [st |-> "Ok", rest |-> r, val |-> v]

Err(kind) == [st |-> kind, rest |-> <<>>, val |-> <<>>]

IsOk(r) == r.st = "Ok"

Drop(i, n) == SubSeq(i, n + 1, Len(i))

----------------------------------------------------------------------------
(* nom 6 primitives, streaming flavour (the imports of de.rs) *)

be_u8(i) == IF Len(i) < 1 THEN Err("Incomplete") ELSE Ok(Drop(i, 1), i[1])

be_u16(i) ==
    IF Len(i) < 2 THEN Err("Incomplete") ELSE Ok(Drop(i, 2), i[1] * 256 + i[2])

be_u32(i) ==
    IF Len(i) < 4 THEN Err("Incomplete")
    ELSE Ok(Drop(i, 4), ((i[1] * 256 + i[2]) * 256 + i[3]) * 256 + i[4])

take(n, i) ==
    IF Len(i) < n THEN Err("Incomplete") ELSE Ok(Drop(i, n), SubSeq(i, 1, n))

\* bytes::streaming::tag: a mismatch in the bytes present is an Error, a
\* matching but too short input is Incomplete
tag(t, i) ==
    LET m == IF Len(i) < Len(t) THEN Len(i) ELSE Len(t)
    IN  IF \E k \in 1..m : i[k] # t[k] THEN Err("Error")
        ELSE IF Len(i) < Len(t) THEN Err("Incomplete")
        ELSE Ok(Drop(i, Len(t)), SubSeq(i, 1, Len(t)))

rest(i) == Ok(<<>>, i)

\* combinator::complete and complete!: Incomplete becomes Error
complete(r) == IF r.st = "Incomplete" THEN Err("Error") ELSE r

\* combinator::map_opt, map_opt! and map_res!: r holds the raw value, table
\* is the lookup, and a lookup that yields nothing is an Error
map_opt(r, table) ==
    IF ~IsOk(r) THEN r
    ELSE IF table[r.val] = <<>> THEN Err("Error")
    ELSE Ok(r.rest, table[r.val][1])

\* map_res!: o is what the conversion made of r's value, nothing on failure
map_res(r, o) ==
    IF ~IsOk(r) THEN r
    ELSE IF o = <<>> THEN Err("Error")
    ELSE Ok(r.rest, o[1])

\* combinator::map_parser: o2 is the outcome of the second parser on what the
\* first took, and what the second leaves of it is dropped
map_parser(first, o2) ==
    IF ~IsOk(first) THEN first
    ELSE IF ~IsOk(o2) THEN o2
    ELSE Ok(first.rest, o2.val)

\* Sequencing (do_parse!, and `let (input, x) = parser(input)?`): p holds the
\* input left and the fields bound so far; r is the outcome of the next
\* parser on p.rest, bound to name.  The first failure is the outcome.
begin(i) == Ok(i, <<>>)

bind(p, name, r) ==
    IF ~IsOk(p) THEN p
    ELSE IF ~IsOk(r) THEN r
    ELSE Ok(r.rest, p.val @@ (name :> r.val))

and_u8(p, name) == bind(p, name, be_u8(p.rest))

and_u16(p, name) == bind(p, name, be_u16(p.rest))

and_u32(p, name) == bind(p, name, be_u32(p.rest))

and_take(p, name, n) == bind(p, name, take(n, p.rest))

\* take(len) with the length bound earlier
and_take_len(p, name, len) == bind(p, name, take(p.val[len], p.rest))

and_tag(p, name, t) == bind(p, name, tag(t, p.rest))

and_opt_u8(p, name, table) == bind(p, name, map_opt(be_u8(p.rest), table))

----------------------------------------------------------------------------
(* Collaborators of de.rs: enumerations, lengths, integers, strings *)

SignatureVersion_from_u8 ==
    [v \in Byte |-> IF v \in {2, 3, 4, 5} THEN <<v>> ELSE <<>>]

SignatureType_from_u8 ==
    [v \in Byte |->
        IF v \in {0, 1, 2, 16, 17, 18, 19, 24, 25, 31, 32, 40, 48, 64, 80}
        THEN <<v>> ELSE <<>>]

PublicKeyAlgorithm_from_u8 ==
    [v \in Byte |->
        CASE v = 1  -> <<"RSA">>
          [] v = 2  -> <<"RSAEncrypt">>
          [] v = 3  -> <<"RSASign">>
          [] v = 16 -> <<"ElgamalSign">>
          [] v = 17 -> <<"DSA">>
          [] v = 18 -> <<"ECDH">>
          [] v = 19 -> <<"ECDSA">>
          [] v = 20 -> <<"Elgamal">>
          [] v = 21 -> <<"DiffieHellman">>
          [] v = 22 -> <<"EdDSA">>
          [] v = 100 -> <<"Private100">>
          [] v = 101 -> <<"Private101">>
          [] v = 102 -> <<"Private102">>
          [] v = 103 -> <<"Private103">>
          [] v = 104 -> <<"Private104">>
          [] v = 105 -> <<"Private105">>
          [] v = 106 -> <<"Private106">>
          [] v = 107 -> <<"Private107">>
          [] v = 108 -> <<"Private108">>
          [] v = 109 -> <<"Private109">>
          [] v = 110 -> <<"Private110">>
          [] OTHER -> <<>>]

HashAlgorithm_from_u8 ==
    [v \in Byte |-> IF v \in {0, 1, 2, 3, 8, 9, 10, 11, 12, 14, 110} THEN <<v>> ELSE <<>>]

SymmetricKeyAlgorithm_from_u8 ==
    [v \in Byte |-> IF v \in (0..4) \cup (7..13) \cup {110} THEN <<v>> ELSE <<>>]

CompressionAlgorithm_from_u8 ==
    [v \in Byte |-> IF v \in {0, 1, 2, 3, 110} THEN <<v>> ELSE <<>>]

AeadAlgorithm_from_u8 ==
    [v \in Byte |-> IF v \in {0, 1, 2} THEN <<v>> ELSE <<>>]

RevocationKeyClass_from_u8 ==
    [v \in Byte |-> IF v \in {128, 192} THEN <<v>> ELSE <<>>]

RevocationCode_from_u8 ==
    [v \in Byte |-> IF v \in {0, 1, 2, 3, 32} THEN <<v>> ELSE <<>>]

KeyVersion_from_u8 ==
    [v \in Byte |-> IF v \in {2, 3, 4, 5} THEN <<v>> ELSE <<>>]

\* Every code maps to a kind: the known ones, Experimental(n), or Other(n).
SubpacketType_from_u8 ==
    [n \in Byte |->
        LET known(s) == <<[name |-> s, n |-> n]>>
        IN  CASE n = 2  -> known("SignatureCreationTime")
              [] n = 3  -> known("SignatureExpirationTime")
              [] n = 4  -> known("ExportableCertification")
              [] n = 5  -> known("TrustSignature")
              [] n = 6  -> known("RegularExpression")
              [] n = 7  -> known("Revocable")
              [] n = 9  -> known("KeyExpirationTime")
              [] n = 11 -> known("PreferredSymmetricAlgorithms")
              [] n = 12 -> known("RevocationKey")
              [] n = 16 -> known("Issuer")
              [] n = 20 -> known("Notation")
              [] n = 21 -> known("PreferredHashAlgorithms")
              [] n = 22 -> known("PreferredCompressionAlgorithms")
              [] n = 23 -> known("KeyServerPreferences")
              [] n = 24 -> known("PreferredKeyServer")
              [] n = 25 -> known("PrimaryUserId")
              [] n = 26 -> known("PolicyURI")
              [] n = 27 -> known("KeyFlags")
              [] n = 28 -> known("SignersUserID")
              [] n = 29 -> known("RevocationReason")
              [] n = 30 -> known("Features")
              [] n = 31 -> known("SignatureTarget")
              [] n = 32 -> known("EmbeddedSignature")
              [] n = 33 -> known("IssuerFingerprint")
              [] n = 34 -> known("PreferredAead")
              [] n \in 101..110 -> known("Experimental")
              [] OTHER -> known("Other")]

\* KeyId::from_slice: exactly eight bytes
KeyId_from_slice(s) == IF Len(s) = 8 THEN <<s>> ELSE <<>>

\* util::read_string: every byte becomes the character with that code point;
\* it cannot fail.  A string is the sequence of its code points.
read_string(raw) == [k \in 1..Len(raw) |-> raw[k]]

\* util::packet_length: the 1-, 2- or 5-octet length of a subpacket
packet_length(i) ==
    LET o == be_u8(i)
    IN  IF ~IsOk(o) THEN o
        ELSE IF o.val < 192 THEN o
        ELSE IF o.val < 255 THEN
            LET a == be_u8(o.rest)
            IN  IF ~IsOk(a) THEN a
                ELSE Ok(a.rest, (o.val - 192) * 256 + 192 + a.val)
        ELSE be_u32(o.rest)

RECURSIVE strip_leading_zeros(_)
strip_leading_zeros(s) ==
    IF s # <<>> /\ s[1] = 0 THEN strip_leading_zeros(Tail(s)) ELSE s

\* types::mpi: a two-octet bit count, then ceil(bits / 8) octets
mpi(i) ==
    LET bits == be_u16(i)
    IN  IF ~IsOk(bits) THEN bits
        ELSE LET n == take((bits.val + 7) \div 8, bits.rest)
             IN  IF ~IsOk(n) THEN n ELSE Ok(n.rest, strip_leading_zeros(n.val))

\* str::from_utf8 succeeds exactly on well-formed UTF-8
RECURSIVE IsUtf8(_)
IsUtf8(s) ==
    LET cont(k) == Len(s) >= k /\ s[k] \in 128..191
    IN  IF s = <<>> THEN TRUE
        ELSE IF s[1] < 128 THEN IsUtf8(Drop(s, 1))
        ELSE IF s[1] \in 194..223 THEN cont(2) /\ IsUtf8(Drop(s, 2))
        ELSE IF s[1] = 224 THEN
            Len(s) >= 3 /\ s[2] \in 160..191 /\ cont(3) /\ IsUtf8(Drop(s, 3))
        ELSE IF s[1] \in (225..236) \cup {238, 239} THEN
            cont(2) /\ cont(3) /\ IsUtf8(Drop(s, 3))
        ELSE IF s[1] = 237 THEN
            Len(s) >= 3 /\ s[2] \in 128..159 /\ cont(3) /\ IsUtf8(Drop(s, 3))
        ELSE IF s[1] = 240 THEN
            Len(s) >= 4 /\ s[2] \in 144..191 /\ cont(3) /\ cont(4)
            /\ IsUtf8(Drop(s, 4))
        ELSE IF s[1] \in 241..243 THEN
            cont(2) /\ cont(3) /\ cont(4) /\ IsUtf8(Drop(s, 4))
        ELSE IF s[1] = 244 THEN
            Len(s) >= 4 /\ s[2] \in 128..143 /\ cont(3) /\ cont(4)
            /\ IsUtf8(Drop(s, 4))
        ELSE FALSE

str_from_utf8(s) == IF IsUtf8(s) THEN <<s>> ELSE <<>>

\* Signature::new: the convenience fields start unset
Signature_new(pv, version, typ, pub_alg, hash_alg, ls_hash, sig, hsub, usub) ==
    [packet_version |-> pv, version |-> version, typ |-> typ,
     pub_alg |-> pub_alg, hash_alg |-> hash_alg, signed_hash_value |-> ls_hash,
     signature |-> sig, hashed_subpackets |-> hsub,
     unhashed_subpackets |-> usub, created |-> <<>>, issuer |-> <<>>]

\* dt_from_timestamp: seconds since the epoch, kept as the number of seconds
dt_from_timestamp(ts) == ts

----------------------------------------------------------------------------
(* The subpacket grammars: from a body slice to an IResult of a Subpacket *)

signature_creation_time(body) ==
    LET d == be_u32(body)
    IN  IF ~IsOk(d) THEN d
        ELSE Ok(d.rest, [kind |-> "SignatureCreationTime",
                         time |-> dt_from_timestamp(d.val)])

issuer(body) ==
    LET k == map_res(complete(take(8, body)), KeyId_from_slice(complete(take(8, body)).val))
    IN  IF ~IsOk(k) THEN k ELSE Ok(k.rest, [kind |-> "Issuer", id |-> k.val])

key_expiration(body) ==
    LET d == be_u32(body)
    IN  IF ~IsOk(d) THEN d
        ELSE Ok(d.rest, [kind |-> "KeyExpirationTime",
                         time |-> dt_from_timestamp(d.val)])

pref_sym_alg(body) ==
    IF \E k \in 1..Len(body) : SymmetricKeyAlgorithm_from_u8[body[k]] = <<>>
    THEN Err("Error")
    ELSE Ok(<<>>, [kind |-> "PreferredSymmetricAlgorithms", list |-> body])

pref_hash_alg(body) ==
    IF \E k \in 1..Len(body) : HashAlgorithm_from_u8[body[k]] = <<>>
    THEN Err("Error")
    ELSE Ok(<<>>, [kind |-> "PreferredHashAlgorithms", list |-> body])

pref_com_alg(body) ==
    IF \E k \in 1..Len(body) : CompressionAlgorithm_from_u8[body[k]] = <<>>
    THEN Err("Error")
    ELSE Ok(<<>>, [kind |-> "PreferredCompressionAlgorithms", list |-> body])

signature_expiration_time(body) ==
    LET d == be_u32(body)
    IN  IF ~IsOk(d) THEN d
        ELSE Ok(d.rest, [kind |-> "SignatureExpirationTime",
                         time |-> dt_from_timestamp(d.val)])

exportable_certification(body) ==
    LET v == complete(be_u8(body))
    IN  IF ~IsOk(v) THEN v
        ELSE Ok(v.rest, [kind |-> "ExportableCertification", flag |-> (v.val = 1)])

revocable(body) ==
    LET v == complete(be_u8(body))
    IN  IF ~IsOk(v) THEN v
        ELSE Ok(v.rest, [kind |-> "Revocable", flag |-> (v.val = 1)])

trust_signature(body) ==
    LET depth == be_u8(body)
    IN  IF ~IsOk(depth) THEN depth
        ELSE LET value == be_u8(depth.rest)
             IN  IF ~IsOk(value) THEN value
                 ELSE Ok(value.rest, [kind |-> "TrustSignature",
                                      depth |-> depth.val, value |-> value.val])

regular_expression(body) ==
    Ok(<<>>, [kind |-> "RegularExpression", text |-> read_string(rest(body).val)])

\* the value revocation_key builds from the fields it bound
revocation_key_value(p) ==
    IF ~IsOk(p) THEN p
    ELSE Ok(p.rest, [kind |-> "RevocationKey",
                     class |-> p.val["class"],
                     algorithm |-> p.val["algorithm"],
                     fingerprint |-> p.val["fp"]])

revocation_key(body) ==
    revocation_key_value(
        and_take(
        and_opt_u8(
        and_opt_u8(begin(body),
            "class", RevocationKeyClass_from_u8),
            "algorithm", PublicKeyAlgorithm_from_u8),
            "fp", 20))

\* the flag the code computes from the first byte of a notation
notation_readable(v) == v = 128

\* the value notation_data builds from the fields it bound
notation_data_value(p) ==
    IF ~IsOk(p) THEN p
    ELSE Ok(p.rest, [kind |-> "Notation",
                     readable |-> notation_readable(p.val["flags"]),
                     name |-> read_string(p.val["name"]),
                     value |-> read_string(p.val["value"])])

notation_data(body) ==
    notation_data_value(
        and_take_len(
        and_take_len(
        and_u16(
        and_u16(
        and_tag(
        and_u8(begin(body),
            "flags"),
            "zeros", <<0, 0, 0>>),
            "name_len"),
            "value_len"),
            "name", "name_len"),
            "value", "value_len"))

key_server_prefs(body) ==
    Ok(<<>>, [kind |-> "KeyServerPreferences", list |-> body])

preferred_key_server(body) ==
    LET b == map_res(rest(body), str_from_utf8(rest(body).val))
    IN  IF ~IsOk(b) THEN b
        ELSE Ok(b.rest, [kind |-> "PreferredKeyServer", text |-> b.val])

primary_userid(body) ==
    LET a == be_u8(body)
    IN  IF ~IsOk(a) THEN a
        ELSE Ok(a.rest, [kind |-> "IsPrimary", flag |-> (a.val = 1)])

policy_uri(body) ==
    Ok(<<>>, [kind |-> "PolicyURI", text |-> read_string(rest(body).val)])

key_flags(body) == Ok(<<>>, [kind |-> "KeyFlags", list |-> body])

signers_userid(body) ==
    LET b == map_res(rest(body), str_from_utf8(rest(body).val))
    IN  IF ~IsOk(b) THEN b
        ELSE Ok(b.rest, [kind |-> "SignersUserID", text |-> b.val])

features(body) == Ok(<<>>, [kind |-> "Features", list |-> body])

rev_reason(body) ==
    LET code == map_opt(be_u8(body), RevocationCode_from_u8)
    IN  IF ~IsOk(code) THEN code
        ELSE Ok(<<>>, [kind |-> "RevocationReason", code |-> code.val,
                       reason |-> read_string(rest(code.rest).val)])

sig_target(body) ==
    LET pub_alg == map_opt(be_u8(body), PublicKeyAlgorithm_from_u8)
    IN  IF ~IsOk(pub_alg) THEN pub_alg
        ELSE LET hash_alg == map_opt(be_u8(pub_alg.rest), HashAlgorithm_from_u8)
             IN  IF ~IsOk(hash_alg) THEN hash_alg
                 ELSE Ok(<<>>, [kind |-> "SignatureTarget",
                                pub_alg |-> pub_alg.val,
                                hash_alg |-> hash_alg.val,
                                hash |-> rest(hash_alg.rest).val])

\* the one point of recursion: the body is a whole signature, parsed as the
\* body of a new-format packet
embedded_sig(body) ==
    LET sig == parse(body, "New")
    IN  IF ~IsOk(sig) THEN sig
        ELSE Ok(sig.rest, [kind |-> "EmbeddedSignature", sig |-> sig.val])

issuer_fingerprint(body) ==
    LET version == map_opt(be_u8(body), KeyVersion_from_u8)
    IN  IF ~IsOk(version) THEN version
        ELSE Ok(<<>>, [kind |-> "IssuerFingerprint", version |-> version.val,
                       fingerprint |-> rest(version.rest).val])

pref_aead_alg(body) ==
    IF \E k \in 1..Len(body) : AeadAlgorithm_from_u8[body[k]] = <<>>
    THEN Err("Error")
    ELSE Ok(<<>>, [kind |-> "PreferredAeadAlgorithms", list |-> body])

\* a slip: a catch-all subpacket with no body is refused
catch_all_nonempty(typ, body) ==
    IF body = <<>> THEN Err("Error")
    ELSE Ok(body, [kind |-> typ.name, n |-> typ.n, data |-> body])

\* the two arms Experimental(n) and Other(n): the raw tag and the raw body
catch_all(typ, body) == Ok(body, [kind |-> typ.name, n |-> typ.n, data |-> body])

subpacket(typ, body) ==
    CASE typ.name = "SignatureCreationTime" -> signature_creation_time(body)
      [] typ.name = "SignatureExpirationTime" -> signature_expiration_time(body)
      [] typ.name = "ExportableCertification" -> exportable_certification(body)
      [] typ.name = "TrustSignature" -> trust_signature(body)
      [] typ.name = "RegularExpression" -> regular_expression(body)
      [] typ.name = "Revocable" -> revocable(body)
      [] typ.name = "KeyExpirationTime" -> key_expiration(body)
      [] typ.name = "PreferredSymmetricAlgorithms" -> pref_sym_alg(body)
      [] typ.name = "RevocationKey" -> revocation_key(body)
      [] typ.name = "Issuer" -> issuer(body)
      [] typ.name = "Notation" -> notation_data(body)
      [] typ.name = "PreferredHashAlgorithms" -> pref_hash_alg(body)
      [] typ.name = "PreferredCompressionAlgorithms" -> pref_com_alg(body)
      [] typ.name = "KeyServerPreferences" -> key_server_prefs(body)
      [] typ.name = "PreferredKeyServer" -> preferred_key_server(body)
      [] typ.name = "PrimaryUserId" -> primary_userid(body)
      [] typ.name = "PolicyURI" -> policy_uri(body)
      [] typ.name = "KeyFlags" -> key_flags(body)
      [] typ.name = "SignersUserID" -> signers_userid(body)
      [] typ.name = "RevocationReason" -> rev_reason(body)
      [] typ.name = "Features" -> features(body)
      [] typ.name = "SignatureTarget" -> sig_target(body)
      [] typ.name = "EmbeddedSignature" -> embedded_sig(body)
      [] typ.name = "IssuerFingerprint" -> issuer_fingerprint(body)
      [] typ.name = "PreferredAead" -> pref_aead_alg(body)
      [] typ.name = "Experimental" -> catch_all(typ, body)
      [] typ.name = "Other" -> catch_all(typ, body)

\* usize::MAX, what 0 - 1 wraps to when overflow is not checked.  It is
\* 2^64 - 1 (2^32 - 1 on 32-bit targets); the checker's integers end at
\* 2^31 - 1, which stands for it: longer than any slice either way.
UsizeMax == 2147483647

\* len - 1 on a usize: only 0 - 1 wraps, every other length is one less
len_minus_one(len) == IF len = 0 THEN UsizeMax ELSE len - 1

\* the body of a subpacket whose length and type are bound: take(len - 1),
\* and the grammar of the type over exactly those bytes
subpacket_body(p) ==
    IF ~IsOk(p) THEN p
    ELSE IF p.val["len"] = 0 /\ overflow_checks THEN Err("Panic")
    ELSE map_parser(take(len_minus_one(p.val["len"]), p.rest),
                    subpacket(p.val["typ"],
                              take(len_minus_one(p.val["len"]), p.rest).val))

\* one length-prefixed subpacket of an area (the closure given to many0)
subpacket_entry(i) ==
    subpacket_body(
        and_opt_u8(
        bind(begin(i),
            "len", packet_length(i)),
            "typ", SubpacketType_from_u8))

\* multi::many0 over combinator::complete: the first Error ends the loop with
\* what was collected so far; anything else that is not Ok is passed on
RECURSIVE many0_subpackets(_, _)
many0_step(i, acc, r) ==
    IF r.st = "Error" THEN Ok(i, acc)
    ELSE IF ~IsOk(r) THEN r
    ELSE IF r.rest = i THEN Err("Error")
    ELSE many0_subpackets(r.rest, Append(acc, r.val))

many0_subpackets(i, acc) == many0_step(i, acc, complete(subpacket_entry(i)))

subpackets(i) == many0_subpackets(i, <<>>)

\* a slip: one integer whatever the algorithm
actual_signature_single(i, typ) ==
    LET v == mpi(i) IN IF ~IsOk(v) THEN v ELSE Ok(v.rest, <<v.val>>)

actual_signature(i, typ) ==
    IF typ \in {"RSA", "RSASign"} THEN
        LET v == mpi(i) IN IF ~IsOk(v) THEN v ELSE Ok(v.rest, <<v.val>>)
    ELSE IF typ \in {"DSA", "ECDSA", "EdDSA"} THEN
        \* fold_many_m_n(2, 2, mpi, ...)
        LET a == mpi(i)
        IN  IF a.st = "Error" THEN Err("Error")
            ELSE IF ~IsOk(a) THEN a
            ELSE IF a.rest = i THEN Err("Error")
            ELSE LET b == mpi(a.rest)
                 IN  IF b.st = "Error" THEN Err("Error")
                     ELSE IF ~IsOk(b) THEN b
                     ELSE IF b.rest = a.rest THEN Err("Error")
                     ELSE Ok(b.rest, <<a.val, b.val>>)
    ELSE
        LET v == mpi(i) IN IF ~IsOk(v) THEN v ELSE Ok(v.rest, <<v.val>>)

\* a slip: the convenience fields of a legacy signature stay unset
v3_signature_unset(pv, version, typ, created, iss, pub_alg, hash_alg, ls_hash, sig) ==
    Signature_new(pv, version, typ, pub_alg, hash_alg, ls_hash, sig, <<>>, <<>>)

\* the legacy signature as v3_parser assembles it: no subpackets, and the
\* creation time and the issuer written into the convenience fields
v3_signature(pv, version, typ, created, iss, pub_alg, hash_alg, ls_hash, sig) ==
    LET s == Signature_new(pv, version, typ, pub_alg, hash_alg, ls_hash, sig,
                           <<>>, <<>>)
    IN  [s EXCEPT !.created = <<dt_from_timestamp(created)>>, !.issuer = <<iss>>]

\* map_res!(take!(8), KeyId::from_slice) as a step
and_key_id(p, name) ==
    bind(p, name, map_res(take(8, p.rest), KeyId_from_slice(take(8, p.rest).val)))

\* actual_signature for the algorithm bound earlier, as a step
and_actual_signature(p, name, alg) ==
    bind(p, name, actual_signature(p.rest, p.val[alg]))

\* map_parser(take(len), subpackets) for the length bound earlier, as a step
and_subpackets(p, name, len) ==
    bind(p, name, map_parser(take(p.val[len], p.rest),
                             subpackets(take(p.val[len], p.rest).val)))

\* the signature v3_parser builds from the fields it bound
v3_parser_value(p, pv, version) ==
    IF ~IsOk(p) THEN p
    ELSE Ok(p.rest, v3_signature(pv, version, p.val["typ"], p.val["created"],
                                 p.val["issuer"], p.val["pub_alg"],
                                 p.val["hash_alg"], p.val["ls_hash"],
                                 p.val["sig"]))

\* a v2 or v3 signature body, after the version byte
v3_parser(i, pv, version) ==
    v3_parser_value(
        and_actual_signature(
        and_take(
        and_opt_u8(
        and_opt_u8(
        and_key_id(
        and_u32(
        and_opt_u8(
        and_tag(begin(i),
            "five", <<5>>),
            "typ", SignatureType_from_u8),
            "created"),
            "issuer"),
            "pub_alg", PublicKeyAlgorithm_from_u8),
            "hash_alg", HashAlgorithm_from_u8),
            "ls_hash", 2),
            "sig", "pub_alg"),
        pv, version)

\* the signature v4_parser builds from the fields it bound
v4_parser_value(p, pv, version) ==
    IF ~IsOk(p) THEN p
    ELSE Ok(p.rest, Signature_new(pv, version, p.val["typ"], p.val["pub_alg"],
                                  p.val["hash_alg"], p.val["ls_hash"],
                                  p.val["sig"], p.val["hsub"], p.val["usub"]))

\* a v4 or v5 signature body, after the version byte
v4_parser(i, pv, version) ==
    v4_parser_value(
        and_actual_signature(
        and_take(
        and_subpackets(
        and_u16(
        and_subpackets(
        and_u16(
        and_opt_u8(
        and_opt_u8(
        and_opt_u8(begin(i),
            "typ", SignatureType_from_u8),
            "pub_alg", PublicKeyAlgorithm_from_u8),
            "hash_alg", HashAlgorithm_from_u8),
            "hsub_len"),
            "hsub", "hsub_len"),
            "usub_len"),
            "usub", "usub_len"),
            "ls_hash", 2),
            "sig", "pub_alg"),
        pv, version)

\* a slip: the version byte is not validated, and what is not legacy is modern
parse_any_version(i, pv) ==
    LET version == be_u8(i)
    IN  IF ~IsOk(version) THEN version
        ELSE IF version.val \in {2, 3} THEN v3_parser(version.rest, pv, version.val)
        ELSE v4_parser(version.rest, pv, version.val)

\* a signature packet body
parse(i, pv) ==
    LET version == map_opt(be_u8(i), SignatureVersion_from_u8)
    IN  IF ~IsOk(version) THEN version
        ELSE IF version.val \in {2, 3} THEN v3_parser(version.rest, pv, version.val)
        ELSE v4_parser(version.rest, pv, version.val)

----------------------------------------------------------------------------
(* The inputs.  A description gen of a signature body is put on the wire by *)
(* Encode; the properties read gen to know what the bytes were meant to be. *)

MaxSubs == 2    \* subpackets in the two areas of a generated signature, in all
MaxMpis == 3    \* multi-precision integers that follow a generated header
MaxBody == 2    \* body bytes of a generated catch-all subpacket

U16(n) == <<n \div 256, n % 256>>

U32(n) == <<n \div 16777216, (n \div 65536) % 256, (n \div 256) % 256, n % 256>>

RECURSIVE Flatten(_)
Flatten(ss) == IF ss = <<>> THEN <<>> ELSE Head(ss) \o Flatten(Tail(ss))

SeqsUpTo(S, n) == UNION {[1..k -> S] : k \in 0..n}

\* a subpacket on the wire: one-octet length, type, body
Wire(d) == <<d.len, d.tag>> \o d.body

Area(ds) == Flatten([k \in 1..Len(ds) |-> Wire(ds[k])])

Sub(name, t, body) == [name |-> name, len |-> Len(body) + 1, tag |-> t, body |-> body]

Encode(g) ==
    LET tail == <<170, 187>> \o Flatten(g.mpis)
        body == IF g.layout = "v3" THEN
                    <<5, g.typ>> \o U32(g.ts) \o g.keyid \o <<g.alg, g.hash>> \o tail
                ELSE IF g.layout = "v4" THEN
                    <<g.typ, g.alg, g.hash>>
                    \o U16(Len(Area(g.hashed))) \o Area(g.hashed)
                    \o U16(Len(Area(g.unhashed))) \o Area(g.unhashed) \o tail
                ELSE <<>>
        all == <<g.vbyte>> \o body
    IN  SubSeq(all, 1, Len(all) - g.cut)

\* a version 4 RSA signature over a SHA-256 digest, no subpackets, one integer
G0 ==
    [vbyte |-> 4, layout |-> "v4", typ |-> 0, alg |-> 1, hash |-> 8, ts |-> 0,
     keyid |-> <<1, 2, 3, 4, 5, 6, 7, 8>>, hashed |-> <<>>, unhashed |-> <<>>,
     mpis |-> <<<<0, 1, 1>>>>, cut |-> 0]

MpiSamples == {<<0, 0>>, <<0, 1, 1>>, <<0, 9, 1, 255>>}

Emb1 == Sub("emb", 32, Encode(G0))

Emb2 == Sub("emb2", 32, Encode([G0 EXCEPT !.unhashed = <<Emb1>>]))

\* subpackets that parse, each to the end of its body
GoodSubs ==
    {Sub("ct", 2, <<0, 0, 0, 1>>), Sub("issuer", 16, <<1, 2, 3, 4, 5, 6, 7, 8>>),
     Sub("other", 254, <<7, 7>>), Emb1, Emb2}

\* subpackets whose grammar fails: an unknown hash code in a preference list,
\* a non-zero reserved byte in a notation, invalid UTF-8 in a key server, a
\* creation time of two bytes, an embedded signature of unknown version
BadSubs ==
    {Sub("bad_enum", 21, <<253>>),
     Sub("bad_notation", 20, <<128, 0, 0, 1, 0, 0, 0, 0>>),
     Sub("bad_utf8", 24, <<255>>), Sub("short", 2, <<0, 0>>),
     Sub("bad_emb", 32, <<9>>)}

\* subpackets whose body is longer than their grammar: a trust signature of
\* three bytes, a creation time of five
SlackSubs == {Sub("trust3", 5, <<3, 120, 99>>), Sub("ct5", 2, <<0, 0, 0, 1, 9>>)}

\* a length field of 0, followed by a type byte
ZeroSub == [name |-> "zero", len |-> 0, tag |-> 2, body |-> <<>>]

\* a declared length of 9 with one body byte present
OverlongSub == [name |-> "overlong", len |-> 9, tag |-> 2, body |-> <<0>>]

Catalogue == GoodSubs \cup BadSubs \cup SlackSubs \cup {ZeroSub, OverlongSub}

\* the pairs (hashed, unhashed) of at most n subpackets of S in all
AreaPairs(S, n) ==
    UNION {[1..k -> S] \X [1..j -> S] : <<k, j>> \in {kj \in (0..n) \X (0..n) : kj[1] + kj[2] <= n}}

Start(g, pv, oc) ==
    /\ gen = g
    /\ input = Encode(g)
    /\ packet_version = pv
    /\ overflow_checks = oc
    /\ result = Err("None")
    /\ pc = "ready"

\* signatures with subpackets of every sort, whole; and well-formed ones cut short
InitAreas ==
    \E oc \in BOOLEAN :
        \/ \E hu \in AreaPairs(Catalogue, MaxSubs) :
               Start([G0 EXCEPT !.hashed = hu[1], !.unhashed = hu[2]], "Old", oc)
        \/ \E hu \in AreaPairs(GoodSubs, 1), lay \in {"v3", "v4"} :
               LET g == [G0 EXCEPT !.hashed = hu[1], !.unhashed = hu[2],
                                   !.layout = lay, !.vbyte = IF lay = "v3" THEN 3 ELSE 4]
               IN  \E c \in 1..Len(Encode(g)) : Start([g EXCEPT !.cut = c], "Old", oc)

\* every public-key algorithm code, followed by up to MaxMpis integers
AlgBytes == {0, 1, 2, 3, 16, 17, 18, 19, 20, 21, 22, 23, 99} \cup (100..111)

InitSigValue ==
    \E oc \in BOOLEAN, a \in AlgBytes, ms \in SeqsUpTo(MpiSamples, MaxMpis),
       lay \in {"v3", "v4"}, c \in 0..1 :
        /\ c <= Len(ms)
        /\ Start([G0 EXCEPT !.alg = a, !.mpis = ms, !.cut = c, !.layout = lay,
                            !.vbyte = IF lay = "v3" THEN 3 ELSE 4], "New", oc)

\* every version byte, in front of a legacy body, a modern body and nothing
InitVersion ==
    \E oc \in BOOLEAN, v \in Byte, lay \in {"v3", "v4", "none"}, pv \in {"Old", "New"} :
        Start([G0 EXCEPT !.vbyte = v, !.layout = lay], pv, oc)

\* a notation subpacket with every flag byte
NotationBody(flag, reserved, name, value) ==
    <<flag>> \o reserved \o U16(Len(name)) \o U16(Len(value)) \o name \o value

InitNotation ==
    \E oc \in BOOLEAN, f \in Byte, z \in {<<0, 0, 0>>, <<0, 0, 1>>, <<1, 0, 0>>},
       nm \in {<<>>, <<97>>}, vl \in {<<>>, <<98, 99>>}, unh \in BOOLEAN :
        LET d == [Sub("notation", 20, NotationBody(f, z, nm, vl))
                     EXCEPT !.name = <<"notation", f, z, nm, vl>>]
        IN  Start([G0 EXCEPT !.hashed = IF unh THEN <<>> ELSE <<d>>,
                             !.unhashed = IF unh THEN <<d>> ELSE <<>>], "New", oc)

\* a subpacket of every type code, with every short body
InitCatchAll ==
    \E oc \in BOOLEAN, t \in Byte, b \in SeqsUpTo({0, 255}, MaxBody), unh \in BOOLEAN :
        LET d == Sub("raw", t, b)
        IN  Start([G0 EXCEPT !.hashed = IF unh THEN <<>> ELSE <<d>>,
                             !.unhashed = IF unh THEN <<d>> ELSE <<>>], "New", oc)

\* legacy signatures with their fixed time and key id, and modern ones whose
\* subpackets carry a time and a key id
TimeSamples == {0, 1, 65536 + 2, 2130706432 + 5}

KeyIdSamples == {<<1, 2, 3, 4, 5, 6, 7, 8>>, <<0, 0, 0, 0, 0, 0, 0, 0>>,
                 <<255, 254, 253, 252, 251, 250, 249, 248>>}

InitConvenience ==
    \E oc \in BOOLEAN, pv \in {"Old", "New"} :
        \/ \E v \in {2, 3}, t \in TimeSamples, k \in KeyIdSamples, a \in {1, 17} :
               Start([G0 EXCEPT !.vbyte = v, !.layout = "v3", !.ts = t, !.keyid = k,
                                !.alg = a, !.mpis = <<<<0, 1, 1>>, <<0, 1, 1>>>>],
                     pv, oc)
        \/ \E v \in {4, 5}, hu \in AreaPairs(GoodSubs, MaxSubs) :
               Start([G0 EXCEPT !.vbyte = v, !.hashed = hu[1], !.unhashed = hu[2]],
                     pv, oc)

\* Deserialize::from_slice: parse the slice; the outcome is kept as parse left it
from_slice ==
    /\ pc = "ready"
    /\ result' = parse(input, packet_version)
    /\ pc' = "done"
    /\ UNCHANGED <<input, packet_version, overflow_checks, gen>>

Next == from_slice

Spec == InitAreas /\ [][Next]_vars

SpecSigValue == InitSigValue /\ [][Next]_vars

SpecVersion == InitVersion /\ [][Next]_vars

SpecNotation == InitNotation /\ [][Next]_vars

SpecCatchAll == InitCatchAll /\ [][Next]_vars

SpecConvenience == InitConvenience /\ [][Next]_vars

----------------------------------------------------------------------------
(* Properties *)

Done == pc = "done"

Sig == result.val

\* the subpackets before position k are well delimited and parse
Reached(ds, k) == \A j \in 1..(k - 1) : ds[j] \in GoodSubs \cup SlackSubs

\* the area holds a subpacket the loop comes to and whose grammar fails
HasFailing(ds) == \E k \in 1..Len(ds) : ds[k] \in BadSubs /\ Reached(ds, k)

\* the area holds a subpacket the loop comes to and whose body is longer than
\* its grammar
HasSlack(ds) == \E k \in 1..Len(ds) : ds[k] \in SlackSubs /\ Reached(ds, k)

\* the area holds a zero length field the loop comes to
HasZero(ds) == \E k \in 1..Len(ds) : ds[k] = ZeroSub /\ Reached(ds, k)

\* the last subpacket of the area declares more bytes than the area has left
EndsOverlong(ds) ==
    ds # <<>> /\ ds[Len(ds)] = OverlongSub
    /\ \A j \in 1..(Len(ds) - 1) : ds[j] \in GoodSubs

\* C1: when a subpacket of the hashed or of the unhashed area of a version 4
\* or 5 signature fails in its grammar, parse returns an error for the whole
\* signature; it returns no Signature holding the subpackets before the bad one.
C1_FailClosed ==
    (Done /\ gen.layout = "v4" /\ gen.cut = 0
          /\ (HasFailing(gen.hashed) \/ HasFailing(gen.unhashed)))
    => result.st = "Error"

\* C5: a signature cut short before a declared length is satisfied parses to
\* Incomplete; a subpacket that declares more bytes than its already sliced
\* area has left makes parse return a malformed-input error, neither
\* Incomplete nor a Signature.
C5_IncompleteVersusMalformed ==
    Done =>
        /\ gen.cut > 0 => result.st = "Incomplete"
        /\ (gen.cut = 0 /\ (EndsOverlong(gen.hashed) \/ EndsOverlong(gen.unhashed)))
           => result.st = "Error"

\* C7: when parse succeeds on a version 4 or 5 body, no subpacket was accepted
\* with bytes of its declared body left over, and neither area has a tail that
\* no parsed subpacket covers.
C7_NoSilentTruncation ==
    (Done /\ IsOk(result) /\ gen.layout = "v4" /\ gen.cut = 0) =>
        /\ ~HasSlack(gen.hashed) /\ ~HasSlack(gen.unhashed)
        /\ subpackets(Area(gen.hashed)).rest = <<>>
        /\ subpackets(Area(gen.unhashed)).rest = <<>>

\* C9: a subpacket whose length field decodes to 0 ends the parse with a
\* malformed-input error: no panic, no wrapped length, no subpacket list
\* silently cut at that point.
C9_ZeroLengthIsMalformed ==
    (Done /\ gen.layout = "v4" /\ gen.cut = 0
          /\ (HasZero(gen.hashed) \/ HasZero(gen.unhashed)))
    => result.st = "Error"

RECURSIVE NestDepth(_)
\* how deep embedded signatures nest inside a parsed signature
NestDepth(sig) ==
    LET subs == sig.hashed_subpackets \o sig.unhashed_subpackets
        inner == {1 + NestDepth(subs[k].sig) :
                      k \in {j \in 1..Len(subs) : subs[j].kind = "EmbeddedSignature"}}
    IN  IF inner = {} THEN 0 ELSE CHOOSE d \in inner : \A e \in inner : e <= d

RECURSIVE EmbeddedAreNew(_)
\* every signature embedded in a parsed signature, at any depth, carries the
\* packet-format version New
EmbeddedAreNew(sig) ==
    LET subs == sig.hashed_subpackets \o sig.unhashed_subpackets
    IN  \A k \in 1..Len(subs) :
            subs[k].kind = "EmbeddedSignature" =>
                subs[k].sig.packet_version = "New" /\ EmbeddedAreNew(subs[k].sig)

\* one turn of the subpacket loop on the area leaves less than it was given
LoopAdvances(area) ==
    LET r == subpacket_entry(area) IN IsOk(r) => Len(r.rest) < Len(area)

\* C10: parse ends with a Signature or an error on every input; a turn of the
\* subpacket loop consumes at least one byte; embedded signatures are parsed
\* as New, and they nest less deep than the input is long.
C10_Terminates ==
    Done =>
        /\ result.st \in {"Ok", "Error", "Incomplete"}
        /\ LoopAdvances(Area(gen.hashed)) /\ LoopAdvances(Area(gen.unhashed))
        /\ IsOk(result) => (NestDepth(Sig) < Len(input) /\ EmbeddedAreNew(Sig))

\* the wire count of multi-precision integers the algorithm code stands for
Arity(a) == IF a \in {17, 19, 22} THEN 2 ELSE 1

\* the integers that are whole in the input
Present == Len(gen.mpis) - gen.cut

\* C2: a parsed signature holds exactly one integer for RSA and RSASign,
\* exactly two for DSA, ECDSA and EdDSA, and exactly one for every other
\* accepted code; with fewer than two integers present a DSA, ECDSA or EdDSA
\* signature does not parse, and Private100..Private110 parse with one.
C2_SignatureArity ==
    Done =>
        /\ IsOk(result) => Len(Sig.signature) = Arity(gen.alg)
        /\ (gen.alg \in {17, 19, 22} /\ Present < 2) => ~IsOk(result)
        /\ (gen.alg \in {1, 3} \cup (100..110) /\ Present >= 1) => IsOk(result)
        /\ (gen.alg \in {17, 19, 22} /\ Present >= 2) => IsOk(result)

\* a DSA signature followed by three integers parsed, and holds two of them
C2_Witness ==
    /\ Done /\ IsOk(result) /\ gen.alg = 17 /\ Len(gen.mpis) = 3
    /\ Len(Sig.signature) = 2

\* C3: only the version bytes 2, 3, 4 and 5 parse; 2 and 3 go to the legacy
\* grammar and 4 and 5 to the modern one; any other byte is a malformed-input
\* error, not Incomplete; a parsed signature carries the byte read as its
\* version and the packet_version argument unchanged.
C3_VersionDispatch ==
    Done =>
        /\ gen.vbyte \notin {2, 3, 4, 5} => result.st = "Error"
        /\ IsOk(result) => (Sig.version = gen.vbyte
                            /\ Sig.packet_version = packet_version)
        /\ gen.vbyte \in {2, 3} => (IsOk(result) <=> gen.layout = "v3")
        /\ gen.vbyte \in {4, 5} => (IsOk(result) <=> gen.layout = "v4")

\* a version 5 body of an old-format packet parsed by the modern grammar
C3_Witness ==
    /\ Done /\ IsOk(result) /\ gen.vbyte = 5 /\ packet_version = "Old"
    /\ Sig.version = 5 /\ Sig.packet_version = "Old"

\* the subpacket the generated signature carries, and the list it lands in
TheSub == IF gen.hashed # <<>> THEN gen.hashed[1] ELSE gen.unhashed[1]

TheList ==
    IF gen.hashed # <<>> THEN Sig.hashed_subpackets ELSE Sig.unhashed_subpackets

TheOtherList ==
    IF gen.hashed # <<>> THEN Sig.unhashed_subpackets ELSE Sig.hashed_subpackets

\* C4: a subpacket whose type code maps to Experimental(n) or Other(n) parses
\* with any body, the empty one included, to that kind with the raw code n and
\* the body bytes as they are; the signature around it parses.
C4_CatchAllNeverFails ==
    LET typ == SubpacketType_from_u8[TheSub.tag][1]
    IN  (Done /\ typ.name \in {"Experimental", "Other"}) =>
            /\ IsOk(result)
            /\ TheList = <<[kind |-> typ.name, n |-> TheSub.tag, data |-> TheSub.body]>>
            /\ TheOtherList = <<>>

\* an unhashed subpacket of the unknown type 254 with an empty body was kept
C4_Witness ==
    /\ Done /\ IsOk(result) /\ gen.hashed = <<>>
    /\ TheSub.tag = 254 /\ TheSub.body = <<>>
    /\ Sig.unhashed_subpackets = <<[kind |-> "Other", n |-> 254, data |-> <<>>]>>

\* C6: a signature parsed from a version 2 or 3 body has its creation time
\* and issuer fields set to the time and key id of the body and has no
\* subpackets; one parsed from a version 4 or 5 body has both fields unset,
\* whatever its subpackets are.
C6_ConvenienceFields ==
    (Done /\ IsOk(result)) =>
        /\ gen.layout = "v3" =>
              /\ Sig.version \in {2, 3}
              /\ Sig.created = <<gen.ts>> /\ Sig.issuer = <<gen.keyid>>
              /\ Sig.hashed_subpackets = <<>> /\ Sig.unhashed_subpackets = <<>>
        /\ gen.layout = "v4" =>
              /\ Sig.version \in {4, 5}
              /\ Sig.created = <<>> /\ Sig.issuer = <<>>
              /\ Len(Sig.hashed_subpackets) = Len(gen.hashed)
              /\ Len(Sig.unhashed_subpackets) = Len(gen.unhashed)

\* a version 3 signature parsed with a creation time above 2^24 and a key id
\* of high bytes
C6_Witness ==
    /\ Done /\ IsOk(result) /\ Sig.version = 3
    /\ Sig.created = <<2130706437>>
    /\ Sig.issuer = <<<<255, 254, 253, 252, 251, 250, 249, 248>>>>

\* C8: a notation subpacket that parses is readable exactly when the top bit
\* of its flag byte is set, and carries the name and the value of the declared
\* lengths; one whose three reserved bytes are not 0, 0, 0 does not parse.
C8_NotationFlag ==
    LET flag == TheSub.name[2]
        zeros == TheSub.name[3]
    IN  (Done /\ IsOk(result)) =>
            /\ zeros # <<0, 0, 0>> => TheList = <<>>
            /\ zeros = <<0, 0, 0>> =>
                  /\ Len(TheList) = 1
                  /\ TheList[1].kind = "Notation"
                  /\ TheList[1].readable = (flag >= 128)
                  /\ TheList[1].name = TheSub.name[4]
                  /\ TheList[1].value = TheSub.name[5]

====
